---- MODULE Spec2Model ----
(***************************************************************************)
(* Model of the ads-fetcher HTTP service (src/app.js): the POST /run       *)
(* handler, its bearer-token gate (verifyIdToken over EXPECT_AUDIENCES),   *)
(* the read of the Firestore "brands" collection and the per-brand         *)
(* set(..., {merge: true}) writes to the "ads" collection joined by        *)
(* Promise.all.  Every await of the handler is one step of the model; the  *)
(* synchronous code between two awaits runs inside one step.               *)
(***************************************************************************)
EXTENDS Integers, Sequences, FiniteSets, TLC

\* Bounds of the model.
MaxBrands == 2          \* brands collection holds the documents 1..n, n <= MaxBrands
MaxClock == 1           \* the wall clock takes the values 0..MaxClock

Requests == {1, 2}      \* two POST /run invocations (e.g. cron + manual trigger)

NULL == "<null>"        \* JavaScript null

----------------------------------------------------------------------------
\* Strings are sequences of symbols; "Bearer", "Basic", "tA", ... stand for
\* runs of non-blank characters, " " and "," for themselves.

\* Raw values of the EXPECT_AUDIENCES environment variable (<<>>: unset or '').
EnvChoices ==
    { <<>>,
      <<"A">>,
      <<"A", ",", " ", "B">>,
      <<" ", ",", "B", " ">> }

\* Authorization headers a client may send (<<>>: header absent).
NoHeader == <<>>
Headers ==
    { NoHeader,
      <<"Basic", " ", "tA">>,
      <<"Bearer", " ">>,
      <<"Bearer", " ", "tA">>,
      <<"Bearer", " ", "tB">>,
      <<"Bearer", " ", "tX">> }

\* String.prototype.split(',')
RECURSIVE SplitComma(_)
SplitComma(s) ==
    IF \A i \in 1..Len(s) : s[i] # ","
    THEN << s >>
    ELSE LET k == CHOOSE i \in 1..Len(s) :
                     s[i] = "," /\ \A j \in 1..(i-1) : s[j] # ","
         IN  << SubSeq(s, 1, k-1) >> \o SplitComma(SubSeq(s, k+1, Len(s)))

\* String.prototype.trim()
RECURSIVE Trim(_)
Trim(s) ==
    IF s = <<>> THEN s
    ELSE IF Head(s) = " " THEN Trim(Tail(s))
    ELSE IF s[Len(s)] = " " THEN Trim(SubSeq(s, 1, Len(s)-1))
    ELSE s

NonEmpty(s) == s # <<>>

MapTrim(fields) == [i \in 1..Len(fields) |-> Trim(fields[i])]

\* (process.env.EXPECT_AUDIENCES || '').split(',').map(s => s.trim()).filter(Boolean)
ParseAudiences(raw) == SelectSeq(MapTrim(SplitComma(raw)), NonEmpty)

\* BearerMatch with the scheme left unchecked, as /^\S+ (.+)$/ would match.
BearerMatchAnyScheme(h) ==
    /\ Len(h) >= 3
    /\ h[2] = " "
    /\ \A i \in 3..Len(h) : h[i] # "\n"

\* authHeader.match(/^Bearer (.+)$/)
BearerMatch(h) ==
    /\ Len(h) >= 3
    /\ h[1] = "Bearer"
    /\ h[2] = " "
    /\ \A i \in 3..Len(h) : h[i] # "\n"

\* match[1]
BearerGroup(h) == SubSeq(h, 3, Len(h))

\* Google-signed, unexpired ID tokens and the audience each was minted for.
SignedTokens == (<<"tA">> :> <<"A">>) @@ (<<"tB">> :> <<"B">>)

\* oauth2Client.verifyIdToken({idToken, audience}): resolves iff the token is
\* validly signed and its aud claim is the requested audience.
OAuthVerify(idToken, audience) ==
    /\ idToken \in DOMAIN SignedTokens
    /\ SignedTokens[idToken] = audience

\* new Date(ms).toISOString()
ToISOString(t) == [iso |-> t]
NoTime == [iso |-> -1]

----------------------------------------------------------------------------
VARIABLES
    env,      \* process environment: [EXPECT_AUDIENCES |-> raw string]
    store,    \* Firestore: [brands |-> id -> document, ads |-> key -> document]
    clock,    \* wall clock (last value read)
    req,      \* per request: the handler's locals and its position
    health,   \* the last GET /health: its Authorization header and the answer
    fetch     \* one run of the pagination fetcher for one brand

vars == << env, store, clock, req, health, fetch >>

EXPECT_AUDIENCES == ParseAudiences(env.EXPECT_AUDIENCES)

\* Documents of the brands collection.
BrandDocChoices(b) ==
    { [page_id |-> b],
      [page_id |-> b, name |-> "acme", lastFetchedAt |-> ToISOString(0)] }

BrandCollections ==
    UNION { [1..n -> UNION { BrandDocChoices(b) : b \in 1..MaxBrands }] : n \in 0..MaxBrands }

IdleReq ==
    [ pc         |-> "idle",
      header     |-> NoHeader,
      calls      |-> <<>>,
      brandsRead |-> "none",
      snap       |-> <<>>,
      now        |-> NoTime,
      ops        |-> <<>>,
      resp       |-> [code |-> 0, body |-> [error |-> ""]] ]

\* No GET /health answered yet.
IdleHealth == [header |-> NoHeader, resp |-> [code |-> 0, body |-> ""]]

\* The pagination fetcher before it is called.
IdleFetch ==
    [ pc        |-> "idle",
      brand     |-> [page_id |-> 0],
      now       |-> 0,
      pages     |-> <<>>,
      cutoff    |-> 0,
      requested |-> 0,
      out       |-> <<>> ]

Init ==
    /\ health = IdleHealth
    /\ fetch = IdleFetch
    /\ env \in [EXPECT_AUDIENCES : EnvChoices]
    /\ \E bc \in BrandCollections :
          /\ \A b \in DOMAIN bc : bc[b] \in BrandDocChoices(b)
          /\ store = [brands |-> bc, ads |-> <<>>]
    /\ clock = 0
    /\ req = [r \in Requests |-> IdleReq]

----------------------------------------------------------------------------
\* brandsSnap.docs: the documents of the collection, ordered by document id.
RECURSIVE DocsInOrder(_, _)
DocsInOrder(coll, ids) ==
    IF ids = {} THEN <<>>
    ELSE LET m == CHOOSE i \in ids : \A j \in ids : i <= j
         IN  << [id |-> m, data |-> coll[m]] >> \o DocsInOrder(coll, ids \ {m})

SnapDocs(st) == DocsInOrder(st.brands, DOMAIN st.brands)

\* A brand document with lastFetchedAt set to now.
MergeWatermark(brand, now) ==
    [f \in DOMAIN brand \cup {"lastFetchedAt"} |->
        IF f = "lastFetchedAt" THEN now ELSE brand[f]]

\* `ad_${brandId}`
AdDocId(brandId) == << "ad_", brandId >>

\* brand.name || null
BrandNameOrNull(brand) ==
    IF "name" \in DOMAIN brand /\ brand.name # "" THEN brand.name ELSE NULL

\* AdPayload with the clock read again for each brand inside the loop: later
\* brands carry a later fetchedAt.
AdPayloadClockPerBrand(brandId, brand, now) ==
    [ brandId   |-> brandId,
      brandName |-> BrandNameOrNull(brand),
      fetchedAt |-> [iso |-> now.iso + brandId - 1],
      source    |-> "ads-fetcher-service" ]

\* adPayload
AdPayload(brandId, brand, now) ==
    [ brandId   |-> brandId,
      brandName |-> BrandNameOrNull(brand),
      fetchedAt |-> now,
      source    |-> "ads-fetcher-service" ]

HasName(d) == "name" \in DOMAIN d.data

\* Set the watermark of every listed brand to now.
RECURSIVE MarkFetched(_, _, _)
MarkFetched(brands, docs, now) ==
    IF docs = <<>> THEN brands
    ELSE MarkFetched([brands EXCEPT ![Head(docs).id] =
                         MergeWatermark(@, now)],
                     Tail(docs), now)

\* RunLoop that also stamps lastFetchedAt on each brand document while it
\* issues the brand's write, before the outcome of the write is known.
RunLoopEagerWatermark(st, docs, now) ==
    [ store |-> [st EXCEPT !.brands = MarkFetched(@, docs, now)],
      ops   |-> [i \in 1..Len(docs) |->
                    [ brandId |-> docs[i].id,
                      key     |-> AdDocId(docs[i].id),
                      payload |-> AdPayload(docs[i].id, docs[i].data, now),
                      state   |-> "pending" ]] ]

\* RunLoop that skips the brand documents without a name.
RunLoopSkipUnnamed(st, docs, now) ==
    LET named == SelectSeq(docs, HasName)
    IN  [ store |-> st,
          ops   |-> [i \in 1..Len(named) |->
                        [ brandId |-> named[i].id,
                          key     |-> AdDocId(named[i].id),
                          payload |-> AdPayload(named[i].id, named[i].data, now),
                          state   |-> "pending" ]] ]

\* RunLoop whose `brand` is taken from the first document for every payload.
RunLoopFirstBrand(st, docs, now) ==
    [ store |-> st,
      ops   |-> [i \in 1..Len(docs) |->
                    [ brandId |-> docs[i].id,
                      key     |-> AdDocId(docs[i].id),
                      payload |-> AdPayload(docs[i].id, docs[1].data, now),
                      state   |-> "pending" ]] ]

\* RunLoop that awaits each set() inside the loop: when the handler first
\* yields, only the first brand's write has been issued.
RunLoopAwaitEach(st, docs, now) ==
    [ store |-> st,
      ops   |-> [i \in 1..(IF Len(docs) = 0 THEN 0 ELSE 1) |->
                    [ brandId |-> docs[i].id,
                      key     |-> AdDocId(docs[i].id),
                      payload |-> AdPayload(docs[i].id, docs[i].data, now),
                      state   |-> "pending" ]] ]

\* The for loop over brandsSnap.docs: one set() is issued per document and its
\* promise pushed to ops; the loop itself leaves the store as it is.
RunLoop(st, docs, now) ==
    [ store |-> st,
      ops   |-> [i \in 1..Len(docs) |->
                    [ brandId |-> docs[i].id,
                      key     |-> AdDocId(docs[i].id),
                      payload |-> AdPayload(docs[i].id, docs[i].data, now),
                      state   |-> "pending" ]] ]

\* DocumentReference.set(data, {merge: true}): the fields of data replace the
\* document's fields of the same name, its other fields stay.
MergeDoc(old, data) ==
    [f \in DOMAIN old \cup DOMAIN data |-> IF f \in DOMAIN data THEN data[f] ELSE old[f]]

SetMerge(coll, key, data) ==
    [k \in DOMAIN coll \cup {key} |->
        IF k # key THEN coll[k]
        ELSE IF key \in DOMAIN coll THEN MergeDoc(coll[key], data) ELSE data]

\* ApplySet as collection.add(data) would write: a new document per call, under
\* a fresh id that is no function of the brand.
ApplyAdd(st, op) ==
    [st EXCEPT !.ads = SetMerge(@, << "auto_", Cardinality(DOMAIN st.ads) >>, op.payload)]

\* The store after the write of one op has been applied.
ApplySet(st, op) == [st EXCEPT !.ads = SetMerge(@, op.key, op.payload)]

\* res.status(code).json(body); the handler returns.
Respond(rq, code, body) ==
    [rq EXCEPT !.pc = "done", !.resp = [code |-> code, body |-> body]]

\* CatchResponse without the test of the message: every error is a 500.
CatchResponseAlways500(rq, message) ==
    Respond(rq, 500, [error |-> message])

\* The handler's catch block.
CatchResponse(rq, message) ==
    IF message = "no-token" \/ message = "invalid-token"
    THEN Respond(rq, 401, [error |-> message])
    ELSE Respond(rq, 500, [error |-> message])

\* res.json({status: 'ok', processed: ops.length})
OkBody(ops) == [status |-> "ok", processed |-> Len(ops)]

\* VerifyIdTokenStep without the try/catch around the call: the first failed
\* verification is thrown as invalid-token.
VerifyIdTokenStepNoCatch(token, auds, k, lastOk) ==
    IF k = 0 /\ token = <<>> THEN "no-token"
    ELSE IF k > 0 /\ lastOk THEN "return"
    ELSE IF k > 0 THEN "invalid-token"
    ELSE IF k < Len(auds) THEN "call"
    ELSE "invalid-token"

\* VerifyIdTokenStep that lets every token pass when no audience is configured.
VerifyIdTokenStepFailOpen(token, auds, k, lastOk) ==
    IF k = 0 /\ token = <<>> THEN "no-token"
    ELSE IF k = 0 /\ Len(auds) = 0 THEN "return"
    ELSE IF k > 0 /\ lastOk THEN "return"
    ELSE IF k < Len(auds) THEN "call"
    ELSE "invalid-token"

\* verifyIdToken(token), resumed after k calls of oauth2Client.verifyIdToken
\* have settled (lastOk: the k-th resolved): what the function does next.
\*   "call"   it awaits the call for the audience k+1
\*   "return" it returns the ticket's payload
\*   otherwise the message of the Error it throws
VerifyIdTokenStep(token, auds, k, lastOk) ==
    IF k = 0 /\ token = <<>> THEN "no-token"
    ELSE IF k > 0 /\ lastOk THEN "return"
    ELSE IF k < Len(auds) THEN "call"
    ELSE "invalid-token"

\* The handler from `await verifyIdToken(idToken)` up to its next await.
VerifyFlow(rq, auds, k, lastOk) ==
    LET step == VerifyIdTokenStep(BearerGroup(rq.header), auds, k, lastOk)
    IN  CASE step = "call"   -> [rq EXCEPT !.pc = "verify",
                                           !.calls = Append(@, auds[k+1])]
          [] step = "return" -> [rq EXCEPT !.pc = "brands",
                                           !.brandsRead = "issued"]
          [] OTHER           -> CatchResponse(rq, step)

AllFulfilled(ops) == \A i \in 1..Len(ops) : ops[i].state = "fulfilled"

----------------------------------------------------------------------------
\* POST /run arrives with Authorization header h.
Receive(r, h) ==
    /\ req[r].pc = "idle"
    /\ LET rq == [req[r] EXCEPT !.header = h]
       IN  req' = [req EXCEPT ![r] =
                      IF ~BearerMatch(h)
                      THEN Respond(rq, 401, [error |-> "missing-token"])
                      ELSE VerifyFlow(rq, EXPECT_AUDIENCES, 0, FALSE)]
    /\ UNCHANGED << env, store, clock, health, fetch >>

\* The same, when no other invocation is being handled.
ReceiveAlone(r, h) ==
    /\ \A q \in Requests \ {r} : req[q].pc \in {"idle", "done"}
    /\ Receive(r, h)

\* The awaited oauth2Client.verifyIdToken call settles.
VerifySettle(r) ==
    /\ req[r].pc = "verify"
    /\ LET k  == Len(req[r].calls)
           ok == OAuthVerify(BearerGroup(req[r].header), req[r].calls[k])
       IN  req' = [req EXCEPT ![r] = VerifyFlow(req[r], EXPECT_AUDIENCES, k, ok)]
    /\ UNCHANGED << env, store, clock, health, fetch >>

\* firestore.collection('brands').get() rejects.
BrandsFail(r) ==
    /\ req[r].pc = "brands"
    /\ req' = [req EXCEPT ![r] =
                  CatchResponse([req[r] EXCEPT !.brandsRead = "failed"],
                                "brands-unavailable")]
    /\ UNCHANGED << env, store, clock, health, fetch >>

\* firestore.collection('brands').get() resolves: the clock is read once (it
\* shows some t not before the last reading), the loop issues the writes and
\* the handler awaits Promise.all(ops), which resolves at once for no ops.
BrandsOk(r) ==
    /\ req[r].pc = "brands"
    /\ \E t \in clock..MaxClock :
          LET docs == SnapDocs(store)
              now  == ToISOString(t)
              loop == RunLoop(store, docs, now)
              rq   == [req[r] EXCEPT !.brandsRead = "ok", !.snap = docs,
                                     !.now = now, !.ops = loop.ops]
          IN  /\ clock' = t
              /\ store' = loop.store
              /\ req' = [req EXCEPT ![r] =
                            IF Len(rq.ops) = 0
                            THEN Respond(rq, 200, OkBody(rq.ops))
                            ELSE [rq EXCEPT !.pc = "awaitAll"]]
    /\ UNCHANGED << env, health, fetch >>

\* The write of op i is applied and its promise fulfilled; Promise.all
\* resolves with the last of them and the handler answers.
WriteOk(r, i) ==
    /\ i \in 1..Len(req[r].ops)
    /\ req[r].ops[i].state = "pending"
    /\ store' = ApplySet(store, req[r].ops[i])
    /\ LET rq == [req[r] EXCEPT !.ops[i].state = "fulfilled"]
       IN  req' = [req EXCEPT ![r] =
                      IF rq.pc = "awaitAll" /\ AllFulfilled(rq.ops)
                      THEN Respond(rq, 200, OkBody(rq.ops))
                      ELSE rq]
    /\ UNCHANGED << env, clock, health, fetch >>

\* The write of op i is rejected; Promise.all rejects with the first
\* rejection and the handler's catch block answers.
WriteFail(r, i) ==
    /\ i \in 1..Len(req[r].ops)
    /\ req[r].ops[i].state = "pending"
    /\ LET rq == [req[r] EXCEPT !.ops[i].state = "rejected"]
       IN  req' = [req EXCEPT ![r] =
                      IF rq.pc = "awaitAll"
                      THEN CatchResponse(rq, "write-failed")
                      ELSE rq]
    /\ UNCHANGED << env, store, clock, health, fetch >>

\* HealthResponse that answers only callers that present a bearer token.
HealthResponseBearerOnly(h) ==
    IF BearerMatch(h) THEN [code |-> 200, body |-> "ok"]
    ELSE [code |-> 401, body |-> "missing-token"]

\* (req, res) => res.status(200).send('ok')
HealthResponse(h) == [code |-> 200, body |-> "ok"]

\* GET /health arrives with Authorization header h.
Health(h) ==
    /\ health' = [header |-> h, resp |-> HealthResponse(h)]
    /\ UNCHANGED << env, store, clock, req, fetch >>

\* Invocations may overlap in time: any interleaving of their steps.
Next ==
    \E r \in Requests :
        \/ \E h \in Headers : Receive(r, h)
        \/ VerifySettle(r)
        \/ BrandsFail(r)
        \/ BrandsOk(r)
        \/ \E i \in 1..MaxBrands : WriteOk(r, i)
        \/ \E i \in 1..MaxBrands : WriteFail(r, i)

Spec == Init /\ [][Next]_vars

\* Invocations one after another: a request arrives only when every earlier
\* one has been answered.
NextSeq ==
    \E r \in Requests :
        \/ \E h \in Headers : ReceiveAlone(r, h)
        \/ VerifySettle(r)
        \/ BrandsFail(r)
        \/ BrandsOk(r)
        \/ \E i \in 1..MaxBrands : WriteOk(r, i)
        \/ \E i \in 1..MaxBrands : WriteFail(r, i)

SpecSeq == Init /\ [][NextSeq]_vars

----------------------------------------------------------------------------
\* Properties of the bearer-token gate.

Token(r) == BearerGroup(req[r].header)

NonBearerHeaders == { NoHeader, <<"Basic", " ", "tA">>, <<"Bearer", " ">> }

MissingToken401 == [code |-> 401, body |-> [error |-> "missing-token"]]
InvalidToken401 == [code |-> 401, body |-> [error |-> "invalid-token"]]

C2_AnyAudienceFailClosed ==
    \A r \in Requests :
        (req[r].pc # "idle" /\ req[r].header \notin NonBearerHeaders) =>
            LET auds     == EXPECT_AUDIENCES
                n        == Len(req[r].calls)
                accepted == \E i \in 1..Len(auds) : OAuthVerify(Token(r), auds[i])
            IN  /\ n <= Len(auds)
                /\ req[r].calls = SubSeq(auds, 1, n)
                /\ \A i \in 1..(n-1) : ~OAuthVerify(Token(r), auds[i])
                /\ (req[r].brandsRead # "none") => accepted
                /\ (req[r].pc = "done" /\ req[r].brandsRead = "none") =>
                       /\ ~accepted
                       /\ req[r].calls = auds
                       /\ req[r].resp = InvalidToken401
                /\ (req[r].pc = "verify") => n >= 1

C2_Witness ==
    \E r \in Requests :
        /\ Len(req[r].calls) = 2
        /\ ~OAuthVerify(Token(r), req[r].calls[1])
        /\ req[r].brandsRead # "none"

----------------------------------------------------------------------------
\* Properties of the run over the brand list.

Rejected(r)  == {i \in 1..Len(req[r].ops) : req[r].ops[i].state = "rejected"}
Fulfilled(r) == {i \in 1..Len(req[r].ops) : req[r].ops[i].state = "fulfilled"}

IsOk200(r) == req[r].pc = "done" /\ req[r].resp.code = 200

\* The watermark of brand b (NoTime when the document has none).
LastFetchedAt(st, b) ==
    IF b \in DOMAIN st.brands /\ "lastFetchedAt" \in DOMAIN st.brands[b]
    THEN st.brands[b].lastFetchedAt
    ELSE NoTime

\* C4: when the write of exactly one brand of a list of two or more fails and
\* the others succeed, the request is answered with status "ok" (not 500),
\* counting the other brands as processed.
C4_OneBrandFailureIsolated ==
    \A r \in Requests :
        ( /\ req[r].pc = "done"
          /\ Len(req[r].ops) >= 2
          /\ Cardinality(Rejected(r)) = 1
          /\ Cardinality(Fulfilled(r)) = Len(req[r].ops) - 1 ) =>
            /\ req[r].resp.code = 200
            /\ req[r].resp.body.status = "ok"
            /\ req[r].resp.body.processed = Len(req[r].ops) - 1

\* In this step the write of some run for brand b is applied and fulfilled.
FulfilledInStep(b) ==
    \E r \in Requests : \E i \in 1..Len(req[r].ops) :
        /\ req[r].ops[i].brandId = b
        /\ req[r].ops[i].state = "pending"
        /\ req'[r].ops[i].state = "fulfilled"

\* C5: no step changes a brand's lastFetchedAt unless it is the step in which
\* a run's processing of that brand succeeds; in particular a failed read of
\* the brand list, a rejected write and the issuing of the writes leave every
\* watermark as it was.
C5_WatermarkOnlyOnSuccess ==
    [][ \A b \in 1..MaxBrands :
            ~FulfilledInStep(b) => LastFetchedAt(store', b) = LastFetchedAt(store, b) ]_vars

C5_Witness ==
    \E r \in Requests : \E i \in 1..Len(req[r].ops) :
        /\ req[r].ops[i].state = "rejected"
        /\ req[r].resp.code = 500
        /\ LastFetchedAt(store, req[r].ops[i].brandId) = ToISOString(0)

\* C6: after a run answered ok, every brand it processed carries, in the
\* brands collection, lastFetchedAt equal to the 'now' of a run that
\* processed it.
C6_WatermarkIsRunNow ==
    \A r \in Requests :
        IsOk200(r) =>
            \A i \in 1..Len(req[r].ops) :
                \E q \in Requests : \E j \in Fulfilled(q) :
                    /\ req[q].ops[j].brandId = req[r].ops[i].brandId
                    /\ LastFetchedAt(store, req[r].ops[i].brandId) = req[q].now

\* C7: a 500 answer is given only for an error outside the per-brand
\* processing (the read of the brand list failed), and then no write to ads
\* was issued.
C7_Only500OutsideBrands ==
    \A r \in Requests :
        (req[r].pc = "done" /\ req[r].resp.code = 500) =>
            /\ req[r].brandsRead = "failed"
            /\ req[r].ops = <<>>

\* C8: an authenticated run whose brands read and writes all succeed is
\* answered 200 {status: "ok", processed: n} with n the number of brands read;
\* for an empty brand list n = 0 and no write is issued.
C8_OkProcessedCount ==
    \A r \in Requests :
        (req[r].brandsRead = "ok" /\ Fulfilled(r) = 1..Len(req[r].ops)) =>
            /\ req[r].pc = "done"
            /\ req[r].resp.code = 200
            /\ req[r].resp.body.status = "ok"
            /\ req[r].resp.body.processed = Len(req[r].snap)
            /\ req[r].resp.body.processed = Cardinality(DOMAIN store.brands)
            /\ (DOMAIN store.brands = {}) =>
                   (req[r].resp.body.processed = 0 /\ req[r].ops = <<>>)

C8_Witness ==
    \E r \in Requests :
        /\ IsOk200(r)
        /\ req[r].resp.body.processed >= 2
        /\ \E b \in DOMAIN store.brands : "name" \notin DOMAIN store.brands[b]

\* The keys the brand list maps to.
BrandKeys == { AdDocId(b) : b \in DOMAIN store.brands }

RecordsOf(b) == { k \in DOMAIN store.ads : store.ads[k].brandId = b }

\* C10 (overlapping runs, Spec): at every point of every interleaving a
\* brand has at most one record; a record carries its own brand's id and
\* name and the 'now' of a run that wrote it; and once a write for a brand
\* has been applied, in particular when both runs were answered ok, the
\* brand has exactly one record.
C10_OverlapOneRecordPerBrand ==
    /\ \A k \in DOMAIN store.ads :
          LET d == store.ads[k]
          IN  /\ d.brandId \in DOMAIN store.brands
              /\ d.brandName = BrandNameOrNull(store.brands[d.brandId])
              /\ DOMAIN d = {"brandId", "brandName", "fetchedAt", "source"}
              /\ \E r \in Requests : \E i \in Fulfilled(r) :
                    /\ req[r].ops[i].brandId = d.brandId
                    /\ d.fetchedAt = req[r].now
    /\ \A b \in DOMAIN store.brands :
          /\ Cardinality(RecordsOf(b)) <= 1
          /\ (\E r \in Requests : \E i \in Fulfilled(r) : req[r].ops[i].brandId = b)
                => Cardinality(RecordsOf(b)) = 1

C10_Witness ==
    \E r, q \in Requests :
        /\ IsOk200(r) /\ IsOk200(q)
        /\ req[r].now.iso < req[q].now.iso
        /\ Cardinality(DOMAIN store.brands) >= 2
        /\ \E a, b \in DOMAIN store.brands :
              /\ RecordsOf(a) # {} /\ RecordsOf(b) # {}
              /\ \A k \in RecordsOf(a) : store.ads[k].fetchedAt = req[r].now
              /\ \A k \in RecordsOf(b) : store.ads[k].fetchedAt = req[q].now

----------------------------------------------------------------------------
\* GET /health probes arriving at any time while a POST /run is handled.
NextHealth ==
    \/ \E h \in Headers : Health(h)
    \/ \E r \in {1} :
          \/ \E h \in Headers : Receive(r, h)
          \/ VerifySettle(r)
          \/ BrandsFail(r)
          \/ BrandsOk(r)
          \/ \E i \in 1..MaxBrands : WriteOk(r, i)
          \/ \E i \in 1..MaxBrands : WriteFail(r, i)

SpecHealth == Init /\ [][NextHealth]_vars

\* C11: every GET /health is answered 200 "ok", whatever its Authorization
\* header, and the step that answers it issues no token verification and
\* touches neither the store nor any POST /run in progress.
C11_HealthAlwaysOk ==
    [][ (health' # health) =>
            /\ health'.resp = [code |-> 200, body |-> "ok"]
            /\ req' = req
            /\ store' = store
            /\ clock' = clock ]_vars

C11_Witness ==
    /\ health.resp.code = 200
    /\ health.header = <<"Basic", " ", "tA">>
    /\ req[1].pc = "awaitAll"
    /\ store.ads # <<>>

----------------------------------------------------------------------------
\* The incremental fetch of one brand (cutoff window and pagination fetcher).
\* Timestamps are counted in days.

DEFAULT_LOOKBACK == 10      \* days
MAX_PAGES == 50             \* hard maximum of pages fetched per call
MaxApiPages == 2            \* bound: the ads API holds 1..MaxApiPages pages

FetchNows == {12, 13}
FetchBrands == { [page_id |-> 1], [page_id |-> 1, lastFetchedAt |-> 4] }
AdTimes == {1, 3, 5}

Ads == [createdTime : AdTimes]
ApiPageChoices == { <<>> } \cup { << a >> : a \in Ads } \cup { << a, b >> : a, b \in Ads }
ApiPageLists == UNION { [1..n -> ApiPageChoices] : n \in 1..MaxApiPages }

\* Cutoff that forgets the lookback for a brand without a watermark.
CutoffNoLookback(brand, now) ==
    IF "lastFetchedAt" \in DOMAIN brand THEN brand.lastFetchedAt ELSE now

\* CutoffWindow: lastFetchedAt if present, else now - DEFAULT_LOOKBACK.
Cutoff(brand, now) ==
    IF "lastFetchedAt" \in DOMAIN brand
    THEN brand.lastFetchedAt
    ELSE now - DEFAULT_LOOKBACK

\* FetchPageStep that stops only when the API has no further page.
FetchPageStepNoHalt(f) ==
    LET n     == f.requested + 1
        page  == f.pages[n]
        fresh == SelectSeq(page, LAMBDA ad : ad.createdTime >= f.cutoff)
    IN  [f EXCEPT !.requested = n,
                  !.out = @ \o fresh,
                  !.pc = IF n >= Len(f.pages) \/ n >= MAX_PAGES
                         THEN "done" ELSE "fetching"]

\* One round of fetchNewAds: the next page is requested, its ads not older
\* than the cutoff are accumulated, and pagination stops when the page holds
\* an ad older than the cutoff, when the API reports no further page token or
\* when MAX_PAGES pages have been fetched.
FetchPageStep(f) ==
    LET n       == f.requested + 1
        page    == f.pages[n]
        fresh   == SelectSeq(page, LAMBDA ad : ad.createdTime >= f.cutoff)
        crossed == \E i \in 1..Len(page) : page[i].createdTime < f.cutoff
    IN  [f EXCEPT !.requested = n,
                  !.out = @ \o fresh,
                  !.pc = IF crossed \/ n >= Len(f.pages) \/ n >= MAX_PAGES
                         THEN "done" ELSE "fetching"]

\* The orchestrator computes the brand's cutoff and calls the fetcher.
FetchStart ==
    /\ fetch.pc = "idle"
    /\ fetch' = [fetch EXCEPT !.pc = "fetching",
                              !.cutoff = Cutoff(fetch.brand, fetch.now)]
    /\ UNCHANGED << env, store, clock, req, health >>

\* A page is fetched.
FetchPage ==
    /\ fetch.pc = "fetching"
    /\ fetch' = FetchPageStep(fetch)
    /\ UNCHANGED << env, store, clock, req, health >>

\* A page fetch fails after its retries: the error propagates and the ads
\* gathered so far are discarded.
FetchError ==
    /\ fetch.pc = "fetching"
    /\ fetch' = [fetch EXCEPT !.pc = "failed", !.out = <<>>]
    /\ UNCHANGED << env, store, clock, req, health >>

InitFetch ==
    /\ env = [EXPECT_AUDIENCES |-> <<>>]
    /\ store = [brands |-> <<>>, ads |-> <<>>]
    /\ clock = 0
    /\ req = [r \in Requests |-> IdleReq]
    /\ health = IdleHealth
    /\ \E b \in FetchBrands, n \in FetchNows, ps \in ApiPageLists :
          fetch = [IdleFetch EXCEPT !.brand = b, !.now = n, !.pages = ps]

NextFetch == FetchStart \/ FetchPage \/ FetchError

SpecFetch == InitFetch /\ [][NextFetch]_vars

HasOlderAd(k) ==
    \E i \in 1..Len(fetch.pages[k]) : fetch.pages[k][i].createdTime < fetch.cutoff

----------------------------------------------------------------------------
\* Properties of the writes of one run.

\* C14: a run that has loaded the brand list has issued exactly one write per
\* brand of the list, the write for brand b to the document ad_b (distinct
\* brands, distinct documents), all with the same fetchedAt: the clock value
\* the run read once, which it does only after the list has been loaded.
C14_OneWritePerBrandSameNow ==
    /\ \A r \in Requests :
          /\ (req[r].brandsRead # "ok") => (req[r].now = NoTime /\ req[r].ops = <<>>)
          /\ (req[r].brandsRead = "ok") =>
                /\ req[r].now \in { [iso |-> t] : t \in 0..MaxClock }
                /\ \A b \in DOMAIN store.brands :
                      Cardinality({ i \in 1..Len(req[r].ops) :
                                       req[r].ops[i].brandId = b }) = 1
                /\ \A i \in 1..Len(req[r].ops) :
                      /\ req[r].ops[i].brandId \in DOMAIN store.brands
                      /\ req[r].ops[i].key = << "ad_", req[r].ops[i].brandId >>
                      /\ req[r].ops[i].payload.brandId = req[r].ops[i].brandId
                      /\ req[r].ops[i].payload.fetchedAt = req[r].now
                /\ \A i, j \in 1..Len(req[r].ops) :
                      (i # j) => req[r].ops[i].key # req[r].ops[j].key
    /\ \A k \in DOMAIN store.ads : k = << "ad_", store.ads[k].brandId >>

C14_Witness ==
    \E r \in Requests :
        /\ req[r].brandsRead = "ok"
        /\ Len(req[r].ops) >= 2
        /\ req[r].now = ToISOString(1)
        /\ Fulfilled(r) = 1..Len(req[r].ops)

\* C15: when the handler first awaits the outcome of a write, the writes of
\* all brands of the list have been issued; the rejection of one write (and
\* the 500 answer it causes) withdraws or changes no other write, and writes
\* once issued stay issued, so they may still be applied after the answer.
C15_AllWritesIssuedBeforeAwait ==
    [][ \A r \in Requests :
            /\ (req'[r].brandsRead = "ok") => Len(req'[r].ops) = Len(req'[r].snap)
            /\ Len(req'[r].ops) >= Len(req[r].ops)
            /\ \A i \in 1..Len(req[r].ops) :
                  ( /\ req[r].ops[i].state = "pending"
                    /\ req'[r].ops[i].state = "rejected" ) =>
                      /\ store' = store
                      /\ \A j \in 1..Len(req[r].ops) :
                            (j # i) => req'[r].ops[j] = req[r].ops[j] ]_vars

C15_Witness ==
    \E r \in Requests : \E i, j \in 1..Len(req[r].ops) :
        /\ req[r].pc = "done"
        /\ req[r].resp.code = 500
        /\ req[r].ops[i].state = "rejected"
        /\ req[r].ops[j].state = "pending"
        /\ ENABLED WriteOk(r, j)

----------------------------------------------------------------------------
\* An external call of request r settles.
Settle(r) ==
    \/ VerifySettle(r)
    \/ BrandsFail(r)
    \/ BrandsOk(r)
    \/ \E i \in 1..MaxBrands : WriteOk(r, i) \/ WriteFail(r, i)

\* While a request has an external call outstanding, one of its calls
\* eventually settles.
Fairness == \A r \in Requests : WF_vars(Settle(r))

\* One POST /run, handled to its end.
NextOne ==
    \E r \in {1} :
        \/ \E h \in Headers : Receive(r, h)
        \/ VerifySettle(r)
        \/ BrandsFail(r)
        \/ BrandsOk(r)
        \/ \E i \in 1..MaxBrands : WriteOk(r, i)
        \/ \E i \in 1..MaxBrands : WriteFail(r, i)

SpecLive == Init /\ [][NextOne]_vars /\ Fairness

\* No audience of the allow-list accepts the token of request r.
TokenRefused(r) ==
    \/ req[r].header \in NonBearerHeaders
    \/ \A i \in 1..Len(EXPECT_AUDIENCES) : ~OAuthVerify(Token(r), EXPECT_AUDIENCES[i])

StoreFailed(r) == req[r].brandsRead = "failed" \/ Rejected(r) # {}

\* The answer of request r is the one its token and store outcomes call for.
AnswerClassified(r) ==
    /\ (req[r].pc # "done") => req[r].resp.code = 0
    /\ (req[r].pc = "done") =>
          /\ req[r].resp.code \in {200, 401, 500}
          /\ (req[r].resp.code = 401) <=> TokenRefused(r)
          /\ (req[r].resp.code = 500) <=> (~TokenRefused(r) /\ StoreFailed(r))
          /\ (req[r].resp.code = 200) <=> (~TokenRefused(r) /\ ~StoreFailed(r))

====
